---- MODULE Spec2Model ----
(***************************************************************************)
(* Model of the note sanitizer of sandbox-stockwatch (utils/sanitize):     *)
(* sanitizeHtml = DOMPurify.sanitize(html, config) followed by the link    *)
(* post-processing String.replace.                                         *)
(*                                                                         *)
(* A string is a sequence of atoms.  An atom is either one character that  *)
(* matters to HTML or to the two regular expressions of the source         *)
(* ("<", ">", "/", "=", the two quotes, space, TAB, DEL, ":", a digit), a  *)
(* character reference ("&lt;" ...), or a run of characters that is never  *)
(* split (a tag name, an attribute name, a word of text).                  *)
(*                                                                         *)
(* DOMPurify is the npm dependency imported at line 1 of the source; what  *)
(* it does with the config object of lines 25-73 is modelled after the     *)
(* library's documented algorithm (DOMPurify 3.2): parse with the          *)
(* browser's HTML parser, walk the tree, filter elements and attributes,   *)
(* serialise with innerHTML.                                               *)
(*                                                                         *)
(* Spec and LiveSpec are single calls of sanitizeHtml and the call on what *)
(* it returned; CallsSpec is calls from several places sharing the         *)
(* DOMPurify instance; NotesSpec is the StockNotes component (mount,       *)
(* effect, textarea and symbol changes) over a store that may throw;       *)
(* SearchSpec and SearchLiveSpec are the search pages: the StockSearch     *)
(* form, the popular buttons, handleSearch and its two fetches.            *)
(***************************************************************************)
EXTENDS Integers, Sequences, FiniteSets, TLC

DQ == "\""
SQ == "'"
SP == " "
TAB == "\t"
DEL == "<DEL>"   \* U+007F, one atom

\* Atoms that begin with an ASCII letter: "<" followed by one of them opens a tag.
Words ==
  { "a", "b", "i", "p", "ul", "li", "div", "span", "script", "button",
    "noscript", "img", "br", "href", "rel", "target", "src", "onclick", "onerror", "onpointerdown",
    "data-x", "aria-label", "nofollow", "noopener", "noreferrer",
    "http", "https", "ftp", "mailto", "javascript", "java", "data", "x",
    "alert(1)", "Hello", "Hi", "Example", "Click", "bold" }

\* Atoms made only of characters of the class [a-z+.\-] of ALLOWED_URI_REGEXP.
SchemeClass ==
  { "a", "b", "i", "p", "ul", "li", "div", "span", "script", "button",
    "noscript", "img", "br", "href", "rel", "target", "src", "onclick", "onerror", "onpointerdown",
    "data-x", "aria-label", "nofollow", "noopener", "noreferrer",
    "http", "https", "ftp", "mailto", "javascript", "java", "data", "x",
    "Hello", "Hi", "Example", "Click", "bold" }

----------------------------------------------------------------------------
(* Small helpers on sequences of atoms *)

\* first index j >= i with s[j] \in S, or Len(s)+1
RECURSIVE Find(_, _, _)
Find(s, i, S) ==
  IF i > Len(s) THEN Len(s) + 1
  ELSE IF s[i] \in S THEN i ELSE Find(s, i + 1, S)

\* first index j >= i with s[j] \notin S, or Len(s)+1
RECURSIVE Skip(_, _, _)
Skip(s, i, S) ==
  IF i > Len(s) THEN Len(s) + 1
  ELSE IF s[i] \notin S THEN i ELSE Skip(s, i + 1, S)

StartsWithAt(s, i, pre) ==
  /\ i >= 1
  /\ i + Len(pre) - 1 <= Len(s)
  /\ \A k \in 1..Len(pre) : s[i + k - 1] = pre[k]

\* does t occur in s as a contiguous subsequence (String.prototype.includes)
Includes(s, t) == \E i \in 1..(Len(s) - Len(t) + 1) : StartsWithAt(s, i, t)

RECURSIVE FilterSeq(_, _)
FilterSeq(s, S) ==   \* the atoms of s that are not in S, in order
  IF s = <<>> THEN <<>>
  ELSE IF s[1] \in S THEN FilterSeq(Tail(s), S) ELSE <<s[1]>> \o FilterSeq(Tail(s), S)

----------------------------------------------------------------------------
(* The browser's HTML parser, as DOMPurify calls it (DOMParser, scripting  *)
(* disabled), on strings of atoms.                                         *)

\* character references are decoded once, by the tokenizer
DecodeAtom(c) ==
  CASE c = "&lt;" -> "<"
    [] c = "&gt;" -> ">"
    [] c = "&quot;" -> DQ
    [] c = "&amp;" -> "&"
    [] OTHER -> c

Decode(s) == [k \in 1..Len(s) |-> DecodeAtom(s[k])]

\* elements whose content the tokenizer reads as raw text
RawTextTags == { <<"script">>, <<"style">>, <<"xmp">>, <<"iframe">> }

\* elements that never have content nor an end tag
VoidTags == { <<"br">>, <<"img">>, <<"input">>, <<"embed">>, <<"link">>,
              <<"meta">>, <<"base">>, <<"source">>, <<"track">> }

HasAttr(attrs, name) == \E k \in 1..Len(attrs) : attrs[k].n = name

\* a repeated attribute name is dropped, the first one wins
AddAttr(attrs, name, value) ==
  IF HasAttr(attrs, name) THEN attrs ELSE Append(attrs, [n |-> name, v |-> value])

\* The attributes of a tag from position i on, to its ">".  ok is FALSE when
\* the string ends inside the tag: the tokenizer then drops the tag.
RECURSIVE ParseAttrs(_, _, _)
ParseAttrs(s, i, acc) ==
  LET j == Skip(s, i, {SP, TAB, "/"}) IN
  IF j > Len(s) THEN [ok |-> FALSE, attrs |-> acc, next |-> j]
  ELSE IF s[j] = ">" THEN [ok |-> TRUE, attrs |-> acc, next |-> j + 1]
  ELSE
    LET ne == Find(s, j + 1, {SP, TAB, "/", ">", "="})
        name == SubSeq(s, j, ne - 1)
        a == Skip(s, ne, {SP, TAB})
    IN IF a <= Len(s) /\ s[a] = "="
       THEN LET v == Skip(s, a + 1, {SP, TAB}) IN
            IF v > Len(s) THEN [ok |-> FALSE, attrs |-> acc, next |-> v]
            ELSE IF s[v] \in {DQ, SQ}
            THEN LET q == Find(s, v + 1, {s[v]}) IN
                 IF q > Len(s) THEN [ok |-> FALSE, attrs |-> acc, next |-> q]
                 ELSE ParseAttrs(s, q + 1,
                                 AddAttr(acc, name, Decode(SubSeq(s, v + 1, q - 1))))
            ELSE IF s[v] = ">"
            THEN ParseAttrs(s, v, AddAttr(acc, name, <<>>))
            ELSE LET u == Find(s, v, {SP, TAB, ">"}) IN
                 ParseAttrs(s, u, AddAttr(acc, name, Decode(SubSeq(s, v, u - 1))))
       ELSE ParseAttrs(s, ne, AddAttr(acc, name, <<>>))

TextTok(d) == [k |-> "text", tag |-> <<>>, attrs |-> <<>>, d |-> d]
StartTok(tag, attrs) == [k |-> "start", tag |-> tag, attrs |-> attrs, d |-> <<>>]
EndTok(tag) == [k |-> "end", tag |-> tag, attrs |-> <<>>, d |-> <<>>]

Flush(toks, text) == IF text = <<>> THEN toks ELSE Append(toks, TextTok(text))

\* position of the "</tag" that ends raw text started at i, or Len(s)+1
RECURSIVE RawEnd(_, _, _)
RawEnd(s, i, tag) ==
  IF i > Len(s) THEN Len(s) + 1
  ELSE IF StartsWithAt(s, i, <<"<", "/">> \o tag) THEN i
  ELSE RawEnd(s, i + 1, tag)

\* The tokenizer: the tokens of s from position i on; text holds the
\* characters of the text token being read.
RECURSIVE Tokens(_, _, _, _)
Tokens(s, i, toks, text) ==
  IF i > Len(s) THEN Flush(toks, text)
  ELSE IF s[i] = "<" /\ i + 1 <= Len(s) /\ s[i + 1] \in Words
  THEN LET ne == Find(s, i + 2, {SP, TAB, "/", ">"})
           tag == SubSeq(s, i + 1, ne - 1)
           pa == ParseAttrs(s, ne, <<>>)
       IN IF ~pa.ok THEN Flush(toks, text)
          ELSE LET t1 == Append(Flush(toks, text), StartTok(tag, pa.attrs)) IN
               IF tag \in RawTextTags
               THEN LET r == RawEnd(s, pa.next, tag) IN
                    Tokens(s, r, Flush(t1, SubSeq(s, pa.next, r - 1)), <<>>)
               ELSE Tokens(s, pa.next, t1, <<>>)
  ELSE IF s[i] = "<" /\ i + 2 <= Len(s) /\ s[i + 1] = "/" /\ s[i + 2] \in Words
  THEN LET ne == Find(s, i + 3, {SP, TAB, "/", ">"})
           tag == SubSeq(s, i + 2, ne - 1)
           pa == ParseAttrs(s, ne, <<>>)
       IN IF ~pa.ok THEN Flush(toks, text)
          ELSE Tokens(s, pa.next, Append(Flush(toks, text), EndTok(tag)), <<>>)
  ELSE Tokens(s, i + 1, toks, Append(text, DecodeAtom(s[i])))

Tokenize(s) == Tokens(s, 1, <<>>, <<>>)

----------------------------------------------------------------------------
(* Tree construction.  A node is a text node or an element.                *)

TextNode(d) == [k |-> "t", tag |-> <<>>, attrs |-> <<>>, kids |-> <<>>, d |-> d]
ElemNode(tag, attrs, kids) ==
  [k |-> "e", tag |-> tag, attrs |-> attrs, kids |-> kids, d |-> <<>>]

\* adjacent character tokens make one Text node
AppendNode(kids, n) ==
  IF n.k = "t" /\ kids # <<>> /\ kids[Len(kids)].k = "t"
  THEN [kids EXCEPT ![Len(kids)] = TextNode(kids[Len(kids)].d \o n.d)]
  ELSE Append(kids, n)

\* the stack of open elements: frames [tag, attrs, kids], the root at the bottom
Frame(tag, attrs) == [tag |-> tag, attrs |-> attrs, kids |-> <<>>]

AddToTop(stack, n) ==
  [stack EXCEPT ![Len(stack)].kids = AppendNode(stack[Len(stack)].kids, n)]

PopOne(stack) ==
  LET top == stack[Len(stack)] IN
  AddToTop(SubSeq(stack, 1, Len(stack) - 1), ElemNode(top.tag, top.attrs, top.kids))

RECURSIVE PopThrough(_, _)
PopThrough(stack, tag) ==   \* pop until an element named tag has been popped
  IF Len(stack) <= 1 THEN stack
  ELSE IF stack[Len(stack)].tag = tag THEN PopOne(stack)
  ELSE PopThrough(PopOne(stack), tag)

\* "has an element in button scope": the walk down the stack stops at a marker
ScopeMarkers == { <<"button">>, <<"object">>, <<"table">>, <<"td">>, <<"th">>,
                  <<"caption">>, <<"marquee">>, <<"applet">>, <<"template">> }

RECURSIVE InButtonScope(_, _, _)
InButtonScope(stack, n, tag) ==
  IF n <= 1 THEN FALSE
  ELSE IF stack[n].tag = tag THEN TRUE
  ELSE IF stack[n].tag \in ScopeMarkers THEN FALSE
  ELSE InButtonScope(stack, n - 1, tag)

\* start tags that close an open p element
ClosesP == { <<"p">>, <<"div">>, <<"ul">>, <<"ol">>, <<"pre">>, <<"blockquote">> }

RECURSIVE Build(_, _, _)
Build(toks, i, stack) ==
  IF i > Len(toks)
  THEN IF Len(stack) = 1 THEN stack[1].kids ELSE Build(toks, i, PopOne(stack))
  ELSE
    LET t == toks[i] IN
    IF t.k = "text" THEN Build(toks, i + 1, AddToTop(stack, TextNode(t.d)))
    ELSE IF t.k = "start"
    THEN LET s1 == IF t.tag \in ClosesP /\ InButtonScope(stack, Len(stack), <<"p">>)
                   THEN PopThrough(stack, <<"p">>)
                   ELSE IF t.tag = <<"button">>
                           /\ InButtonScope(stack, Len(stack), <<"button">>)
                   THEN PopThrough(stack, <<"button">>)
                   ELSE stack
         IN IF t.tag \in VoidTags
            THEN Build(toks, i + 1, AddToTop(s1, ElemNode(t.tag, t.attrs, <<>>)))
            ELSE Build(toks, i + 1, Append(s1, Frame(t.tag, t.attrs)))
    ELSE \* an end tag
      IF t.tag = <<"p">> /\ ~InButtonScope(stack, Len(stack), <<"p">>)
      THEN Build(toks, i + 1, AddToTop(stack, ElemNode(<<"p">>, <<>>, <<>>)))
      ELSE IF \E n \in 2..Len(stack) : stack[n].tag = t.tag
      THEN Build(toks, i + 1, PopThrough(stack, t.tag))
      ELSE Build(toks, i + 1, stack)

\* the children of the body the parser builds for the string s
ParseTree(s) == Build(Tokenize(s), 1, <<Frame(<<"#root">>, <<>>)>>)

----------------------------------------------------------------------------
(* The config object of sanitizeHtml *)

Names(S) == { <<x>> : x \in S }

ALLOWED_TAGS ==
  Names({ "b", "i", "em", "strong", "u", "s", "p", "br", "ul", "ol", "li",
          "a", "code", "pre", "blockquote" })

ADD_ATTR == Names({ "rel", "target" })

ALLOWED_ATTR == Names({ "href", "rel", "target" }) \cup ADD_ATTR

FORBID_TAGS ==
  Names({ "script", "style", "iframe", "object", "embed", "link", "meta",
          "base", "form", "input", "textarea", "button", "select", "option",
          "svg", "math", "video", "audio", "source", "track", "canvas", "img" })

FORBID_ATTR ==
  Names({ "style", "onerror", "onclick", "onload", "onmouseover", "onmouseout",
          "onabort", "onblur", "onchange", "ondblclick", "onfocus",
          "onkeydown", "onkeypress", "onkeyup", "onmousedown", "onmousemove",
          "onmouseup", "onreset", "onselect", "onsubmit", "onunload" })

KEEP_CONTENT == TRUE

(* What the config leaves to DOMPurify's defaults *)

\* elements whose content is never kept when the element is removed
FORBID_CONTENTS ==
  Names({ "annotation-xml", "audio", "colgroup", "desc", "foreignobject",
          "head", "iframe", "math", "mi", "mn", "mo", "ms", "mtext", "noembed",
          "noframes", "noscript", "plaintext", "script", "style", "svg",
          "template", "thead", "title", "video", "xmp" })

ALLOW_DATA_ATTR == TRUE
ALLOW_ARIA_ATTR == TRUE

\* attribute names matching /^data-[\-\w.]+$/ and /^aria-[\-\w]+$/
DataAttrNames == Names({ "data-x" })
AriaAttrNames == Names({ "aria-label" })

\* attributes whose value is not checked against the URI expression
URI_SAFE_ATTRIBUTES ==
  Names({ "alt", "class", "for", "id", "label", "name", "pattern",
          "placeholder", "role", "summary", "title", "value", "style", "xmlns" })

DATA_URI_TAGS == Names({ "img", "image", "video", "audio", "source" })

----------------------------------------------------------------------------
(* ALLOWED_URI_REGEXP:                                                     *)
(*  /^(?:(?:(?:f|ht)tps?|mailto):|[^a-z]|[a-z+.\-]+(?:[^a-z+.\-:]|$))/i    *)

\* first alternative: (f|ht)tps? or mailto, then ":"
UriAltScheme(v) ==
  /\ Len(v) >= 2
  /\ v[1] \in { "ftp", "ftps", "http", "https", "mailto" }
  /\ v[2] = ":"

\* second alternative: the first character is not a letter
UriAltNonLetter(v) == v # <<>> /\ v[1] \notin Words

\* third alternative: a run of [a-z+.\-], then a character that is neither
\* of that class nor ":", or the end of the string
UriAltRun(v) ==
  LET r == Skip(v, 1, SchemeClass) IN   \* first atom after the run
  IF r > Len(v) THEN Len(v) >= 1
  ELSE IF v[r] \in Words THEN TRUE       \* letters, then e.g. "(" inside the atom
  ELSE r > 1 /\ v[r] # ":"

ALLOWED_URI_REGEXP(v) == UriAltScheme(v) \/ UriAltNonLetter(v) \/ UriAltRun(v)

\* ATTR_WHITESPACE: the characters U+0000 to U+0020 and the Unicode spaces
\* (U+007F is not in it)
ATTR_WHITESPACE == { SP, TAB }

\* String.prototype.trim
Trim(v) ==
  LET a == Skip(v, 1, {SP, TAB}) IN
  IF a > Len(v) THEN <<>>
  ELSE LET b == CHOOSE k \in a..Len(v) :
                  /\ v[k] \notin {SP, TAB}
                  /\ \A m \in (k + 1)..Len(v) : v[m] \in {SP, TAB}
       IN SubSeq(v, a, b)

\* the slip of matching the value as written
UriNoStrip(v) == v

\* value with ATTR_WHITESPACE removed, as it is handed to the URI expression
StripAttrWhitespace(v) == FilterSeq(v, ATTR_WHITESPACE)

\* SAFE_FOR_XML: /((--!?|])>)|<\/(style|title)/i on an attribute value
XmlUnsafeValue(v) ==
  \E i \in 1..Len(v) :
    \/ StartsWithAt(v, i, <<"<", "/", "style">>)
    \/ StartsWithAt(v, i, <<"<", "/", "title">>)
    \/ StartsWithAt(v, i, <<"]", ">">>)
    \/ StartsWithAt(v, i, <<"--", ">">>)

\* DOMPurify _isValidAttribute
IsValidAttribute(lcTag, lcName, value) ==
  IF ALLOW_DATA_ATTR /\ lcName \notin FORBID_ATTR /\ lcName \in DataAttrNames THEN TRUE
  ELSE IF ALLOW_ARIA_ATTR /\ lcName \in AriaAttrNames THEN TRUE
  ELSE IF lcName \notin ALLOWED_ATTR \/ lcName \in FORBID_ATTR THEN FALSE
  ELSE IF lcName \in URI_SAFE_ATTRIBUTES THEN TRUE
  ELSE IF ALLOWED_URI_REGEXP(StripAttrWhitespace(value)) THEN TRUE
  ELSE IF /\ lcName \in Names({ "src", "xlink:href", "href" })
          /\ lcTag # <<"script">>
          /\ StartsWithAt(value, 1, <<"data", ":">>)
          /\ lcTag \in DATA_URI_TAGS THEN TRUE
  ELSE value = <<>>

\* DOMPurify _sanitizeAttributes: the attributes of one kept element
RECURSIVE SanitizeAttributes(_, _)
SanitizeAttributes(lcTag, attrs) ==
  IF attrs = <<>> THEN <<>>
  ELSE LET name == attrs[1].n
           value == IF name = <<"value">> THEN attrs[1].v ELSE Trim(attrs[1].v)
           rest == SanitizeAttributes(lcTag, Tail(attrs))
       IN IF ~XmlUnsafeValue(value) /\ IsValidAttribute(lcTag, name, value)
          THEN <<[n |-> name, v |-> value]>> \o rest
          ELSE rest

\* two slips: KEEP_CONTENT taken as false, and FORBID_CONTENTS not consulted
KeepsContentDropAll(tag) == FALSE
KeepsContentAlways(tag) == KEEP_CONTENT

\* an element that is removed: are its children kept in its place?
KeepsContent(tag) == KEEP_CONTENT /\ tag \notin FORBID_CONTENTS

\* the slip of the allowlist test turned round
IsRemovedTagInverted(tag) == tag \in ALLOWED_TAGS \/ tag \in FORBID_TAGS

\* is the element removed?
IsRemovedTag(tag) == tag \notin ALLOWED_TAGS \/ tag \in FORBID_TAGS

\* DOMPurify _sanitizeElements over the node iterator: the nodes that
\* replace the node list ns
RECURSIVE SanitizeNodes(_)
SanitizeNodes(ns) ==
  IF ns = <<>> THEN <<>>
  ELSE LET n == ns[1]
           rest == SanitizeNodes(Tail(ns))
       IN IF n.k = "t" THEN <<n>> \o rest
          ELSE IF IsRemovedTag(n.tag)
          THEN (IF KeepsContent(n.tag) THEN SanitizeNodes(n.kids) ELSE <<>>) \o rest
          ELSE <<ElemNode(n.tag, SanitizeAttributes(n.tag, n.attrs),
                          SanitizeNodes(n.kids))>> \o rest

----------------------------------------------------------------------------
(* State *)

VARIABLES
  html,        \* the argument of the current call of sanitizeHtml
  purified,    \* the local `sanitized` after DOMPurify.sanitize (line 76)
  output,      \* the string the call returned
  calls,       \* how many calls have returned
  pc,          \* "ready": a call is about to run, "returned": it has returned,
               \* "raised": it has thrown
  kind,        \* what JavaScript value the argument is ("string", "null", ...);
               \* for another value than a string html holds String(value)
  ran,         \* did the last call run DOMPurify.sanitize and the replace
  CONFIG,      \* DOMPurify's settings: the config object they were parsed from
  log,         \* the calls so far: who called, with what, what came back
  escapeAttrLtGt, \* the DOM implementation: does innerHTML escape "<" and ">"
                  \* inside attribute values (HTML since 2025) or not (before)
  \* the StockNotes component
  symbol,         \* the symbol prop
  text,           \* the text state
  safeHtml,       \* what the last render handed to dangerouslySetInnerHTML
  localStorage,   \* the store: key |-> value
  storage,        \* the browser's storage: "ok", "quota" (setItem throws),
                  \* "denied" (getItem and setItem throw)
  phase,          \* "unmounted", "mounted", "crashed" (an error left the component)
  effectPending,  \* the effect is due: a dependency changed in the last render
  last,           \* the last step of the component and what it did to the store
  runs,           \* runs of the effect since the last mount or input
  inputs,         \* inputs so far (textarea changes, symbol changes)
  cause,          \* what started the current runs of the effect
  \* the search pages
  page,           \* which Index page is shown: "single" or "compare"
  searchInput,    \* StockSearch's symbol state (the text field), per slot
  isLoading,      \* the page's isLoading flag, per slot
  stockData,      \* the page's stockData state, per slot
  historicalData, \* the page's historicalData state, per slot
  search          \* the calls of handleSearch so far, their fetches and
                  \* whether the call is still running

callVars == <<html, purified, output, calls, pc, kind, ran, CONFIG, log>>

notesVars == <<symbol, text, safeHtml, localStorage, storage, phase,
               effectPending, last, runs, inputs, cause>>

searchVars == <<page, searchInput, isLoading, stockData, historicalData, search>>

vars == <<callVars, escapeAttrLtGt, notesVars, searchVars>>

----------------------------------------------------------------------------
(* The argument check of sanitizeHtml, and what DOMPurify does to a value  *)
(* that is no string                                                       *)

TypeOf(k) ==
  CASE k = "string" -> "string"
    [] k = "undefined" -> "undefined"
    [] k = "number" -> "number"
    [] OTHER -> "object"       \* null, an object, an object without toString

\* !html
Falsy(k, h) ==
  \/ k \in { "null", "undefined" }
  \/ k = "string" /\ h = <<>>
  \/ k = "number" /\ h \in { <<"0">>, <<"NaN">> }

\* two slips: the typeof test left out, the whole check left out
ReturnsEmptyIfFalsy(k, h) == Falsy(k, h)
ReturnsEmptyNever(k, h) == FALSE

\* if (!html || typeof html !== 'string') return ''
ReturnsEmpty(k, h) == Falsy(k, h) \/ TypeOf(k) # "string"

\* DOMPurify.sanitize throws a TypeError for a value that is neither a string
\* nor a node and has no toString function
DOMPurifyThrows(k) == k = "bare object"

\* DOMPurify.setConfig is never called
SET_CONFIG == FALSE

\* the slip of settings parsed once and kept
ParseConfigOnce(cfg) == IF CONFIG = "none" THEN cfg ELSE CONFIG

\* DOMPurify.sanitize(dirty, cfg) parses cfg into its settings at every call
ParseConfig(cfg) == IF SET_CONFIG THEN CONFIG ELSE cfg

\* the two config objects of the repository handed to DOMPurify.sanitize
SanitizeConfig == "utils/sanitize"
StockCardConfig == "components/StockCard"

----------------------------------------------------------------------------
(* Serialisation: Element.innerHTML *)

EscapeText(c) ==
  CASE c = "&" -> "&amp;"
    [] c = "<" -> "&lt;"
    [] c = ">" -> "&gt;"
    [] OTHER -> c

EscapeAttr(c) ==
  CASE c = "&" -> "&amp;"
    [] c = DQ -> "&quot;"
    [] c = "<" -> IF escapeAttrLtGt THEN "&lt;" ELSE c
    [] c = ">" -> IF escapeAttrLtGt THEN "&gt;" ELSE c
    [] OTHER -> c

RECURSIVE SerializeAttrs(_)
SerializeAttrs(attrs) ==
  IF attrs = <<>> THEN <<>>
  ELSE <<SP>> \o attrs[1].n \o <<"=", DQ>>
       \o [k \in 1..Len(attrs[1].v) |-> EscapeAttr(attrs[1].v[k])] \o <<DQ>>
       \o SerializeAttrs(Tail(attrs))

RECURSIVE Serialize(_)
Serialize(ns) ==
  IF ns = <<>> THEN <<>>
  ELSE LET n == ns[1] IN
       (IF n.k = "t" THEN [k \in 1..Len(n.d) |-> EscapeText(n.d[k])]
        ELSE <<"<">> \o n.tag \o SerializeAttrs(n.attrs) \o <<">">>
             \o (IF n.tag \in VoidTags THEN <<>>
                 ELSE Serialize(n.kids) \o <<"<", "/">> \o n.tag \o <<">">>))
       \o Serialize(Tail(ns))

\* DOMPurify.sanitize(dirty, config) with RETURN_DOM false: a string without
\* "<" is returned as it is; otherwise parse, walk, serialise the body
DOMPurifySanitize(dirty) ==
  IF \A k \in 1..Len(dirty) : dirty[k] # "<" THEN dirty
  ELSE CHOOSE r \in { Serialize(SanitizeNodes(body)) :
                         body \in { ParseTree(dirty) } } : TRUE

----------------------------------------------------------------------------
(* The link post-processing of sanitizeHtml: sanitized.replace(re, fn),    *)
(* where re is, with flags g and i, and with X standing for [^>] :         *)
(*     <a\s+( X* href=["'] (?: https?:\/\/ [^"']+ ) ["'] X* )>             *)

RelText == <<SP, "rel", "=", DQ, "noopener", SP, "noreferrer", DQ>>
TargetText == <<SP, "target", "=", DQ, "_blank", DQ>>

\* the part of the expression from href= on, matched at h: the index of the
\* closing ">", or 0
HrefMatchEnd(s, h) ==
  IF /\ h + 8 <= Len(s)
     /\ s[h] = "href" /\ s[h + 1] = "=" /\ s[h + 2] \in {DQ, SQ}
     /\ s[h + 3] \in {"http", "https"}
     /\ s[h + 4] = ":" /\ s[h + 5] = "/" /\ s[h + 6] = "/"
     /\ s[h + 7] \notin {DQ, SQ}
  THEN LET q == Find(s, h + 8, {DQ, SQ})
           e == Find(s, q + 1, {">"})
       IN IF q <= Len(s) /\ e <= Len(s) THEN e ELSE 0
  ELSE 0

\* the whole expression matched at i: [g |-> where group 1 starts,
\* e |-> the index of the closing ">"], e = 0 when there is no match.
\* The first X* is greedy: the last href= before the first ">" that lets the
\* rest match.
LinkMatchAt(s, i) ==
  IF i + 2 <= Len(s) /\ s[i] = "<" /\ s[i + 1] = "a" /\ s[i + 2] \in {SP, TAB}
  THEN LET g == Skip(s, i + 2, {SP, TAB})
           gt == Find(s, g, {">"})
           hs == { h \in g..gt : HrefMatchEnd(s, h) # 0 }
       IN IF hs = {} THEN [g |-> g, e |-> 0]
          ELSE [g |-> g,
                e |-> HrefMatchEnd(s, CHOOSE h \in hs : \A h2 \in hs : h2 <= h)]
  ELSE [g |-> 0, e |-> 0]

\* the replacement function (lines 81-91)
LinkReplacement(attrs) ==
  LET a1 == IF ~Includes(attrs, <<"rel", "=">>) THEN attrs \o RelText ELSE attrs
      a2 == IF ~Includes(a1, <<"target", "=">>) THEN a1 \o TargetText ELSE a1
  IN <<"<", "a", SP>> \o a2 \o <<">">>

RECURSIVE ReplaceLinks(_, _)
ReplaceLinks(s, i) ==
  IF i > Len(s) THEN <<>>
  ELSE LET m == LinkMatchAt(s, i) IN
       IF m.e # 0
       THEN LinkReplacement(SubSeq(s, m.g, m.e - 1)) \o ReplaceLinks(s, m.e + 1)
       ELSE <<s[i]>> \o ReplaceLinks(s, i + 1)

LinkPostProcess(s) == ReplaceLinks(s, 1)

\* sanitizeHtml(html), lines 19-95
sanitizeHtml(x) ==
  IF x = <<>> THEN <<>>
  ELSE CHOOSE r \in { LinkPostProcess(sanitized) :
                         sanitized \in { DOMPurifySanitize(x) } } : TRUE

----------------------------------------------------------------------------
(* The inputs: note texts as a user or an attacker writes them *)

MaxDepth == 2   \* how deep the generated markup nests
MaxCalls == 2   \* how often the returned string is sanitized again

El(tag, attrs, content) ==
  <<"<", tag>> \o attrs \o <<">">> \o content \o <<"<", "/", tag, ">">>

At(name, value) == <<SP, name, "=", DQ>> \o value \o <<DQ>>

\* what the innermost element holds
LeafContents == { <<>>, <<"alert(1)">>, El("b", <<>>, <<"bold">>) }

\* elements that wrap other content: allowed (p), neither allowed nor
\* forbidden (div, noscript), forbidden (script, button)
WrapTags == { "p", "div", "script", "button", "noscript" }

RECURSIVE Nested(_)
Nested(d) ==
  IF d = 0 THEN LeafContents
  ELSE LET inner == Nested(d - 1) IN
       inner \cup { El(t, <<>>, c) : t \in WrapTags, c \in inner }

\* An element the parser would put into the head is kept out of the first
\* position: DOMPurify returns the body only.
NestedInputs ==
  { <<"Hi">> \o c \o post : c \in Nested(MaxDepth), post \in { <<>>, <<"Hello">> } }
  \cup { c \o <<"Hello">> : c \in { El(t, <<>>, x) : t \in { "div", "button", "p" },
                                                    x \in Nested(MaxDepth - 1) } }

\* the break-out value: markup inside an attribute value
LinkInValue ==
  <<"<", "a", SP, "href", "=", SQ, "https", ":", "/", "/", "x", SQ, ">",
    "<", "img", SP, "src", "=", "x", SP, "onerror", "=", "alert(1)", ">">>

UrlValues ==
  { <<"https", ":", "/", "/", "x">>,
    <<"http", ":", "/", "/", "x">>,
    <<"https", ":", "/", "/", "x", "/", "rel", "=", "1">>,
    <<SP, "https", ":", "/", "/", "x">>,
    <<"ftp", ":", "x">>,
    <<"mailto", ":", "x">>,
    <<"x", "1", ":", "x">>,
    <<"/", "x">>,
    <<"x">>,
    <<>>,
    <<"javascript", ":", "alert(1)">>,
    <<"java", TAB, "script", ":", "alert(1)">>,
    <<"java", DEL, "script", ":", "alert(1)">>,
    <<SP, "javascript", ":", "alert(1)">>,
    <<TAB, "data", ":", "x">>,
    <<"data", ":", "x">>,
    <<"/", "<", "script">>,
    <<"#">> \o LinkInValue }

LinkInputs ==
  { El("a", At("href", v) \o r \o t, <<"Example">>) :
      v \in UrlValues,
      r \in { <<>>, At("rel", <<"nofollow">>), At("rel", <<"noopener", SP, "noreferrer">>) },
      t \in { <<>>, At("target", <<"x">>) } }
  \cup { El("a", At("target", <<"x">>) \o At("href", v), <<"Example">>) :
           v \in { <<"https", ":", "/", "/", "x">>, <<"/", "x">> } }

AttrInputs ==
  { El(t, At(n, v), <<"Click">>) :
      t \in { "p", "b", "div" },
      n \in { "rel", "target", "onclick", "onpointerdown", "data-x", "aria-label", "src" },
      v \in { <<"x">>, <<"javascript", ":", "alert(1)">>, <<"<", "script">>, LinkInValue } }

OtherInputs ==
  { <<>>,
    <<"Hello">>,
    <<"Hello", "&lt;", "script", "&gt;">>,
    <<"<", "img", SP, "src", "=", "x", SP, "onerror", "=", DQ, "alert(1)", DQ, ">">>,
    <<"<", "p", ">", "Hi", "<", "b", ">", "bold", "<", "/", "b", ">", "<", "/", "p", ">">>,
    <<"<", "p", ">", "Hi", "<", "br", ">", "Hello">> }

\* formatted notes: allowed tags without attributes, every element closed
FormattedInputs ==
  { El("p", <<>>, <<"Hi">> \o El("b", <<>>, <<"bold">>) \o <<"Hello">> \o El("i", <<>>, <<"x">>)),
    El("ul", <<>>, El("li", <<>>, <<"Hi">>) \o El("li", <<>>, <<"Hello">>)),
    El("p", <<>>, <<"Hi">> \o El("ul", <<>>, El("li", <<>>, <<"x">>))),
    El("p", <<>>, <<"Hi", "<", "br", ">", "Hello">>),
    El("b", <<>>, <<"Hi", "&", "Hello">>),
    El("a", <<>>, <<"Example">>) }

RECURSIVE Repeat(_, _)
Repeat(x, n) == IF n = 0 THEN <<>> ELSE x \o Repeat(x, n - 1)

\* malformed markup: unclosed opening tags nested up to MaxDepth + 1, tags
\* and attribute values that never end, closing tags that match nothing
MalformedInputs ==
  { Repeat(<<"<", "b", ">">>, n) \o <<"Hi">> : n \in 1..(MaxDepth + 1) }
  \cup { Repeat(<<"<", "p", ">", "<", "b", ">">>, n) : n \in 1..(MaxDepth + 1) }
  \cup { <<"Hi", "<", "b">>,
          <<"Hi", "<">>,
          <<"Hi", "<", "a", SP, "href", "=", DQ, "x">>,
          <<"Hi", "<", "/", "b", ">">>,
          <<"<", "b", ">", "Hi", "<", "/", "i", ">", "<", "/", "p", ">">>,
          <<"<", "p", ">", "<", "b", ">", "Hi", "<", "/", "p", ">", "<", "/", "b", ">">>,
          <<"<", "b", ">", "Hi", "<", "/", "b">> }

Inputs ==
  NestedInputs \cup LinkInputs \cup AttrInputs \cup OtherInputs
    \cup FormattedInputs \cup MalformedInputs

\* arguments that are no strings: null, undefined, 0, 1, {}, Object.create(null)
NonStringArgs ==
  { [kind |-> "null", s |-> <<"null">>],
    [kind |-> "undefined", s |-> <<"undefined">>],
    [kind |-> "number", s |-> <<"0">>],
    [kind |-> "number", s |-> <<"1">>],
    [kind |-> "object", s |-> <<"[object Object]">>],
    [kind |-> "bare object", s |-> <<>>] }

\* the texts of other StockNotes instances
InstanceTexts ==
  { <<"Hello">>,
    El("div", At("onclick", <<"x">>), <<"Click">>),
    El("a", At("href", <<"https", ":", "/", "/", "x">>), <<"Example">>) }

MaxCardCalls == 1   \* how often the StockCard sanitizer is called in between

----------------------------------------------------------------------------
(* The StockNotes component: its data *)

\* sanitizeNote(note) returns sanitizeHtml(note)
sanitizeNote(note) == sanitizeHtml(note)

Symbols == { "A", "B" }

\* `notes:${symbol}`
storageKey(sym) == <<"notes:", sym>>

Keys == { storageKey(sym) : sym \in Symbols }

\* notes as they are typed, or as they lie in the store before the mount
NoteTexts ==
  { <<>>,
    <<"Hello">>,
    El("script", <<>>, <<"alert(1)">>) \o <<"Hello">>,
    El("p", <<>>, <<"Hi">> \o El("b", <<>>, <<"bold">>)),
    El("p", <<>>, El("button", <<>>, El("p", <<>>, <<"Click">>))),
    <<"<", "img", SP, "src", "=", "x", SP, "onerror", "=", DQ, "alert(1)", DQ, ">">> }

MaxInputs == 2   \* how many inputs the user makes
MaxRuns == 4     \* how often the effect runs after one input

\* does the browser's storage throw
GetItemThrows == storage = "denied"
SetItemThrows == storage \in { "quota", "denied" }

\* the slip of a missing try/catch
NoCatch == FALSE

\* the try/catch blocks: around the initializer, around its write back,
\* around the effect
InitializerCatches == TRUE
WriteBackCatches == TRUE
EffectCatches == TRUE

\* the slip of a write back that never happens
WritesBackNever(stored, sanitized) == FALSE

\* if (stored !== sanitized && stored !== "")
WritesBack(stored, sanitized) == stored # sanitized /\ stored # <<>>

\* the slip of storing the text as it is
EffectStoresRaw(t) == t

\* the value the effect hands to localStorage.setItem
EffectStores(t) == sanitizeNote(t)

\* the slip of rendering the text as it is
RendersRaw(t) == t

\* safeHtml = useMemo(() => sanitizeNote(text), [text])
Renders(t) == sanitizeNote(t)

\* a step of the component: op the step, t the string it worked on, key and
\* value what it wrote if wrote, threw whether the storage threw
Step(op, t, wrote, key, value, threw) ==
  [op |-> op, t |-> t, wrote |-> wrote, key |-> key, value |-> value, threw |-> threw]

NoStep == Step("none", <<>>, FALSE, <<>>, <<>>, FALSE)

\* no component in play
NotesIdle ==
  /\ symbol = "A"
  /\ text = <<>>
  /\ safeHtml = <<>>
  /\ localStorage = [k \in Keys |-> <<>>]
  /\ storage = "ok"
  /\ phase = "unmounted"
  /\ effectPending = FALSE
  /\ last = NoStep
  /\ runs = 0
  /\ inputs = 0
  /\ cause = "none"

----------------------------------------------------------------------------
(* The search pages: StockSearch, handleSearch and the two fetches *)

\* a search slot is named by its handler: handleSearch on the single-stock
\* page, handleSearch1 and handleSearch2 on the compare page
SlotsOf(pg) ==
  IF pg = "single" THEN { "handleSearch" } ELSE { "handleSearch1", "handleSearch2" }

Pages == { "single", "compare" }

AllSlots == UNION { SlotsOf(pg) : pg \in Pages }

\* text of the search field, a sequence of characters
LowerCase == <<"a", "f", "l", "m", "p", "s", "t">>
UpperCase == <<"A", "F", "L", "M", "P", "S", "T">>

IsWhiteSpace(c) == c \in { SP, TAB }

\* String.prototype.toUpperCase
toUpperCase(str) ==
  [k \in 1..Len(str) |->
     IF \E j \in 1..Len(LowerCase) : LowerCase[j] = str[k]
     THEN UpperCase[CHOOSE j \in 1..Len(LowerCase) : LowerCase[j] = str[k]]
     ELSE str[k]]

RECURSIVE trimStart(_)
trimStart(str) ==
  IF str # <<>> /\ IsWhiteSpace(Head(str)) THEN trimStart(Tail(str)) ELSE str

RECURSIVE trimEnd(_)
trimEnd(str) ==
  IF str # <<>> /\ IsWhiteSpace(str[Len(str)])
  THEN trimEnd(SubSeq(str, 1, Len(str) - 1))
  ELSE str

\* String.prototype.trim
trim(str) == trimEnd(trimStart(str))

AAPL == <<"A", "A", "P", "L">>

\* what the user types into the search field
SearchInputs ==
  { <<>>,
    <<TAB, SP>>,
    <<SP, "M", "s", "f", "t", TAB>> }

\* the first of the "popular stocks" buttons of the empty state
PopularSymbols == { AAPL }

MaxSearches == 2   \* calls of handleSearch in one behaviour

\* useState<StockData | null>(null)
Null == [null |-> TRUE]

\* a promise returned by fetchStockQuote or fetchHistoricalData
Pending == [st |-> "pending"]
Rejected == [st |-> "rejected"]
Fulfilled(v) == [st |-> "fulfilled", v |-> v]

\* the StockData object fetchStockQuote builds from a response; response:
\* the search whose request was answered
Quote(sym, id) == [symbol |-> sym, response |-> id]

\* the HistoricalData[] fetchHistoricalData builds from a response; the time
\* series may be empty
HistoryRows == { 0, 1 }
History(id, rows) == [k \in 1..rows |-> [date |-> k, response |-> id]]

\* how a fetch may settle
Outcomes(which, sym, id) ==
  IF which = "quote"
  THEN { Rejected, Fulfilled(Quote(sym, id)) }
  ELSE { Rejected } \cup { Fulfilled(History(id, rows)) : rows \in HistoryRows }

\* StockSearch: <Input disabled={isLoading}>
InputDisabled(s) == isLoading[s]

\* the slip of a submit button that is never disabled
SubmitDisabledNever(s) == FALSE

\* StockSearch: <Button type="submit" disabled={isLoading || !symbol.trim()}>
SubmitDisabled(s) == isLoading[s] \/ trim(searchInput[s]) = <<>>

\* the slip of a catch that leaves the state as it was
CatchKeeps(s, data, empty) == data

\* catch: setStockData(null); setHistoricalData([])
CatchSets(s, data, empty) == [data EXCEPT ![s] = empty]

\* the slip of a missing finally
FinallyKeeps(s, flags) == flags

\* finally: setIsLoading(false)
FinallySets(s, flags) == [flags EXCEPT ![s] = FALSE]

\* is the empty state with the popular buttons rendered
EmptyStateShown ==
  \A s \in SlotsOf(page) : stockData[s] = Null /\ ~isLoading[s]

\* onClick of a popular button: handleSearch(symbol) on the single-stock page,
\* !stockData1 ? handleSearch1(symbol) : handleSearch2(symbol) on the compare page
PopularSlot ==
  IF page = "single" THEN "handleSearch"
  ELSE IF stockData["handleSearch1"] = Null THEN "handleSearch1" ELSE "handleSearch2"

\* no page in play
SearchIdle ==
  /\ page = "single"
  /\ searchInput = [s \in AllSlots |-> <<>>]
  /\ isLoading = [s \in AllSlots |-> FALSE]
  /\ stockData = [s \in AllSlots |-> Null]
  /\ historicalData = [s \in AllSlots |-> <<>>]
  /\ search = <<>>

----------------------------------------------------------------------------
(* The state machine *)

Init ==
  /\ \/ kind = "string" /\ html \in Inputs
     \/ \E a \in NonStringArgs : kind = a.kind /\ html = a.s
  /\ purified = <<>>
  /\ output = <<>>
  /\ calls = 0
  /\ pc = "ready"
  /\ ran = FALSE
  /\ CONFIG = "none"
  /\ log = <<>>
  /\ escapeAttrLtGt \in BOOLEAN
  /\ NotesIdle
  /\ SearchIdle

\* cfg: the settings DOMPurify ran with, "none" when it was not run
LogEntry(by, k, arg, out, cfg) ==
  [by |-> by, kind |-> k, arg |-> arg, out |-> out, cfg |-> cfg]

\* one call of sanitizeHtml(html), lines 19-95
SanitizeHtml ==
  /\ pc = "ready"
  /\ IF ReturnsEmpty(kind, html)
     THEN /\ purified' = <<>>
          /\ output' = <<>>
          /\ ran' = FALSE
          /\ pc' = "returned"
          /\ UNCHANGED CONFIG
     ELSE /\ CONFIG' = ParseConfig(SanitizeConfig)
          /\ ran' = TRUE
          /\ IF DOMPurifyThrows(kind)
             THEN purified' = <<>> /\ output' = <<>> /\ pc' = "raised"
             ELSE /\ purified' = DOMPurifySanitize(html)
                  /\ output' = LinkPostProcess(purified')
                  /\ pc' = "returned"
  /\ calls' = calls + 1
  /\ log' = Append(log, LogEntry("sanitizeHtml", kind, html, output',
                                  IF ran' THEN CONFIG' ELSE "none"))
  /\ UNCHANGED <<html, kind, escapeAttrLtGt, notesVars, searchVars>>

\* StockNotes hands the string it got back to sanitizeNote again (the effect
\* and the render both sanitize the text state, which holds a sanitized string)
SanitizeAgain ==
  /\ pc = "returned"
  /\ calls < MaxCalls
  /\ html' = output
  /\ kind' = "string"
  /\ pc' = "ready"
  /\ UNCHANGED <<purified, output, calls, ran, CONFIG, log, escapeAttrLtGt, notesVars, searchVars>>

Next == SanitizeHtml \/ SanitizeAgain

Spec == Init /\ [][Next]_vars

\* the step that ends a call: it returns or it throws
CallEnds == pc = "ready" /\ pc' \in { "returned", "raised" }

\* sanitizeHtml is synchronous: a call that has started runs to its end
LiveSpec == Spec /\ WF_pc(CallEnds)

(* Calls from several places: other StockNotes instances call sanitizeNote  *)
(* with their own text, StockCard calls DOMPurify with its own config.      *)

CallFromOtherInstance ==
  /\ pc = "returned"
  /\ calls < MaxCalls
  /\ html' \in InstanceTexts
  /\ kind' = "string"
  /\ pc' = "ready"
  /\ UNCHANGED <<purified, output, calls, ran, CONFIG, log, escapeAttrLtGt, notesVars, searchVars>>

CardCalls == Cardinality({ k \in 1..Len(log) : log[k].by = "StockCard" })

\* StockCard's sanitizeHtml: DOMPurify.sanitize(html, config) with its config
StockCardSanitize ==
  /\ pc \in { "ready", "returned" }
  /\ CardCalls < MaxCardCalls
  /\ CONFIG' = ParseConfig(StockCardConfig)
  /\ log' = Append(log, LogEntry("StockCard", "string", <<>>, <<>>, CONFIG'))
  /\ UNCHANGED <<html, purified, output, calls, pc, kind, ran, escapeAttrLtGt, notesVars, searchVars>>

CallsNext == SanitizeHtml \/ CallFromOtherInstance \/ StockCardSanitize

CallsSpec == Init /\ [][CallsNext]_vars

----------------------------------------------------------------------------
(* The StockNotes component: mount, effect, inputs *)

NotesInit ==
  /\ html = <<>>
  /\ kind = "string"
  /\ purified = <<>>
  /\ output = <<>>
  /\ calls = 0
  /\ pc = "ready"
  /\ ran = FALSE
  /\ CONFIG = "none"
  /\ log = <<>>
  /\ escapeAttrLtGt \in BOOLEAN
  /\ symbol = "A"
  /\ text = <<>>
  /\ safeHtml = <<>>
  /\ localStorage \in [Keys -> NoteTexts]
  /\ storage \in { "ok", "quota", "denied" }
  /\ phase = "unmounted"
  /\ effectPending = FALSE
  /\ last = NoStep
  /\ runs = 0
  /\ inputs = 0
  /\ cause = "none"
  /\ SearchIdle

\* the first render: the useState initializer (lines 28-49), safeHtml, and
\* the effect is due
Mount ==
  /\ phase = "unmounted"
  /\ LET key == storageKey(symbol)
         stored == localStorage[key]
         sanitized == sanitizeNote(stored)
         writes == ~GetItemThrows /\ WritesBack(stored, sanitized)
         caught == GetItemThrows \/ (writes /\ SetItemThrows /\ ~WriteBackCatches)
     IN /\ text' = IF caught THEN <<>> ELSE sanitized
        /\ localStorage' = IF writes /\ ~SetItemThrows
                           THEN [localStorage EXCEPT ![key] = sanitized]
                           ELSE localStorage
        /\ phase' = IF caught /\ ~InitializerCatches THEN "crashed" ELSE "mounted"
        /\ last' = Step("mount", stored, writes /\ ~SetItemThrows, key, sanitized,
                        GetItemThrows \/ (writes /\ SetItemThrows))
  /\ safeHtml' = Renders(text')
  /\ effectPending' = (phase' = "mounted")
  /\ runs' = 0
  /\ cause' = "mount"
  /\ UNCHANGED <<callVars, escapeAttrLtGt, searchVars, symbol, storage, inputs>>

\* the effect (lines 51-66) and, when it calls setText, the render that follows
RunEffect ==
  /\ phase = "mounted"
  /\ effectPending
  /\ runs < MaxRuns
  /\ LET key == storageKey(symbol)
         sanitized == sanitizeNote(text)
         value == EffectStores(text)
     IN IF SetItemThrows
        THEN /\ phase' = IF EffectCatches THEN "mounted" ELSE "crashed"
             /\ effectPending' = FALSE
             /\ last' = Step("effect", text, FALSE, key, value, TRUE)
             /\ UNCHANGED <<text, safeHtml, localStorage>>
        ELSE /\ localStorage' = [localStorage EXCEPT ![key] = value]
             /\ text' = sanitized
             /\ safeHtml' = Renders(text')
             /\ effectPending' = (text # sanitized)
             /\ last' = Step("effect", text, TRUE, key, value, FALSE)
             /\ UNCHANGED phase
  /\ runs' = runs + 1
  /\ UNCHANGED <<callVars, escapeAttrLtGt, searchVars, symbol, storage, inputs, cause>>

\* onChange: setText(e.target.value) and the render that follows; React runs
\* an effect that is due before it handles the next input
Change ==
  /\ phase = "mounted"
  /\ ~effectPending
  /\ inputs < MaxInputs
  /\ \E v \in NoteTexts :
        /\ text' = v
        /\ safeHtml' = Renders(v)
        /\ effectPending' = (v # text)
        /\ last' = Step("change", v, FALSE, storageKey(symbol), <<>>, FALSE)
  /\ runs' = 0
  /\ inputs' = inputs + 1
  /\ cause' = "change"
  /\ UNCHANGED <<callVars, escapeAttrLtGt, searchVars, symbol, localStorage, storage, phase>>

\* the parent renders the component with another symbol: storageKey changes,
\* the state stays
ChangeSymbol ==
  /\ phase = "mounted"
  /\ ~effectPending
  /\ inputs < MaxInputs
  /\ \E sym \in Symbols \ { symbol } :
        /\ symbol' = sym
        /\ last' = Step("symbol", text, FALSE, storageKey(sym), <<>>, FALSE)
  /\ effectPending' = TRUE
  /\ runs' = 0
  /\ inputs' = inputs + 1
  /\ cause' = "symbol"
  /\ UNCHANGED <<callVars, escapeAttrLtGt, searchVars, text, safeHtml, localStorage, storage, phase>>

NotesNext == Mount \/ RunEffect \/ Change \/ ChangeSymbol

NotesSpec == NotesInit /\ [][NotesNext]_vars

----------------------------------------------------------------------------
(* The search pages: typing, submitting, the popular buttons, the fetches *)

SearchInit ==
  /\ html = <<>>
  /\ kind = "string"
  /\ purified = <<>>
  /\ output = <<>>
  /\ calls = 0
  /\ pc = "ready"
  /\ ran = FALSE
  /\ CONFIG = "none"
  /\ log = <<>>
  /\ escapeAttrLtGt = FALSE
  /\ NotesIdle
  /\ page \in Pages
  /\ searchInput = [s \in AllSlots |-> <<>>]
  /\ isLoading = [s \in AllSlots |-> FALSE]
  /\ stockData = [s \in AllSlots |-> Null]
  /\ historicalData = [s \in AllSlots |-> <<>>]
  /\ search = <<>>

\* onChange of the search field: setSymbol(e.target.value)
Type ==
  /\ \E s \in SlotsOf(page), v \in SearchInputs :
        /\ ~InputDisabled(s)
        /\ v # searchInput[s]
        /\ searchInput' = [searchInput EXCEPT ![s] = v]
  /\ UNCHANGED <<callVars, escapeAttrLtGt, notesVars, page, isLoading, stockData,
                 historicalData, search>>

\* handleSearch up to its await: setIsLoading(true) and the two fetches start
\* (by: who called, typed: the text of the search field then)
handleSearch(s, by, typed, sym) ==
  /\ Len(search) < MaxSearches
  /\ isLoading' = [isLoading EXCEPT ![s] = TRUE]
  /\ search' = Append(search, [slot |-> s, by |-> by, typed |-> typed, symbol |-> sym,
                               quote |-> Pending, historical |-> Pending,
                               running |-> TRUE])
  /\ UNCHANGED <<stockData, historicalData>>

\* the form's submit event (the user presses the button, or Enter in the
\* field, which the browser turns into a click on the button if it is not
\* disabled) and handleSubmit
Submit ==
  /\ \E s \in SlotsOf(page) :
        /\ ~SubmitDisabled(s)
        /\ IF trim(searchInput[s]) # <<>>
           THEN handleSearch(s, "StockSearch", searchInput[s],
                             toUpperCase(trim(searchInput[s])))
           ELSE UNCHANGED <<isLoading, stockData, historicalData, search>>
  /\ UNCHANGED <<callVars, escapeAttrLtGt, notesVars, page, searchInput>>

\* the user presses a popular button of the empty state
ClickPopular ==
  /\ EmptyStateShown
  /\ \E sym \in PopularSymbols : handleSearch(PopularSlot, "button", sym, sym)
  /\ UNCHANGED <<callVars, escapeAttrLtGt, notesVars, page, searchInput>>

\* a fetch of a search of slot s settles; if that settles the Promise.all of
\* a running handleSearch (one promise rejected, or both fulfilled), the rest
\* of handleSearch runs in the same task: try or catch, then finally
FetchSettlesIn(s) ==
  /\ \E id \in 1..Len(search), which \in { "quote", "historical" } :
        /\ search[id].slot = s
        /\ search[id][which] = Pending
        /\ \E outcome \in Outcomes(which, search[id].symbol, id) :
              LET r == [search[id] EXCEPT ![which] = outcome]
                  rejects == r.running /\ outcome = Rejected
                  resolves == /\ r.running
                              /\ r.quote.st = "fulfilled"
                              /\ r.historical.st = "fulfilled"
              IN /\ search' = [search EXCEPT
                                 ![id] = [r EXCEPT !.running = ~(rejects \/ resolves) /\ @]]
                 /\ IF resolves
                    THEN /\ stockData' = [stockData EXCEPT ![s] = r.quote.v]
                         /\ historicalData' = [historicalData EXCEPT ![s] = r.historical.v]
                         /\ isLoading' = FinallySets(s, isLoading)
                    ELSE IF rejects
                    THEN /\ stockData' = CatchSets(s, stockData, Null)
                         /\ historicalData' = CatchSets(s, historicalData, <<>>)
                         /\ isLoading' = FinallySets(s, isLoading)
                    ELSE UNCHANGED <<stockData, historicalData, isLoading>>
  /\ UNCHANGED <<callVars, escapeAttrLtGt, notesVars, page, searchInput>>

FetchSettles == \E s \in AllSlots : FetchSettlesIn(s)

SearchNext == Type \/ Submit \/ ClickPopular \/ FetchSettles

SearchSpec == SearchInit /\ [][SearchNext]_vars

\* a request that was sent is answered or fails: the browser ends it
SearchLiveSpec == SearchSpec /\ \A s \in AllSlots : WF_vars(FetchSettlesIn(s))

----------------------------------------------------------------------------
(* What the claims speak of: the markup a browser reads from a string *)

\* every element of a node list, in document order
RECURSIVE Elements(_)
Elements(ns) ==
  IF ns = <<>> THEN <<>>
  ELSE (IF ns[1].k = "e" THEN <<ns[1]>> \o Elements(ns[1].kids) ELSE <<>>)
       \o Elements(Tail(ns))

\* the atoms that are words of running text
TextWords == { "alert(1)", "bold", "Hi", "Hello", "Example", "Click", "x" }

RECURSIVE OnlyWords(_)
OnlyWords(d) ==
  IF d = <<>> THEN <<>>
  ELSE (IF d[1] \in TextWords THEN <<d[1]>> ELSE <<>>) \o OnlyWords(Tail(d))

\* the words of the text nodes of ns, in order, leaving out what lies inside
\* an element whose tag is in Drop
RECURSIVE WordsOutside(_, _)
WordsOutside(ns, Drop) ==
  IF ns = <<>> THEN <<>>
  ELSE (IF ns[1].k = "t" THEN OnlyWords(ns[1].d)
        ELSE IF ns[1].tag \in Drop THEN <<>>
        ELSE WordsOutside(ns[1].kids, Drop))
       \o WordsOutside(Tail(ns), Drop)

Range(f) == { f[k] : k \in DOMAIN f }

AttrValue(attrs, name) ==
  LET k == CHOOSE j \in 1..Len(attrs) : attrs[j].n = name IN attrs[k].v

Returned == pc = "returned"

InputTree == ParseTree(html)
PurifiedTree == ParseTree(purified)
OutputTree == ParseTree(output)

----------------------------------------------------------------------------
\* C1: sanitizing a string that sanitizeHtml returned gives that string back
\* (html of a second call is the output of the first).
C1_Idempotent == (Returned /\ calls >= 2) => output = html

\* C2: the returned string nowhere contains "<script" (of the six tags of the
\* claim, script is the one the inputs use)
C2_NoExecutableTagText ==
  Returned => \A i \in 1..(Len(output) - 1) :
                ~(output[i] = "<" /\ output[i + 1] = "script")

\* C3: no element of the returned markup carries an attribute whose name
\* begins with "on"
OnNames == { "onclick", "onerror", "onpointerdown" }

C3_NoEventHandlers ==
  Returned => \A e \in Range(Elements(OutputTree)) :
                \A k \in 1..Len(e.attrs) : e.attrs[k].n[1] \notin OnNames

\* C4: the link post-processing leaves the markup of the DOMPurify result as
\* it is, but for rel="noopener noreferrer" and target="_blank" added at the
\* end of the attributes of a elements
RelAttr == [n |-> <<"rel">>, v |-> <<"noopener", SP, "noreferrer">>]
TargetAttr == [n |-> <<"target">>, v |-> <<"_blank">>]

RECURSIVE SameButLinkAttrs(_, _)
SameButLinkAttrs(ns1, ns2) ==
  /\ Len(ns1) = Len(ns2)
  /\ \A k \in 1..Len(ns1) :
       LET n1 == ns1[k]
           n2 == ns2[k]
       IN /\ n1.k = n2.k
          /\ n1.d = n2.d
          /\ n1.tag = n2.tag
          /\ \/ n2.attrs = n1.attrs
             \/ /\ n1.tag = <<"a">>
                /\ n2.attrs \in { n1.attrs \o <<RelAttr>>,
                                  n1.attrs \o <<TargetAttr>>,
                                  n1.attrs \o <<RelAttr, TargetAttr>> }
          /\ SameButLinkAttrs(n1.kids, n2.kids)

C4_PostProcessOnlyAddsLinkAttrs ==
  Returned => SameButLinkAttrs(ParseTree(purified), OutputTree)

\* C5: every href of the returned markup is a relative reference or has the
\* scheme http, https or mailto.  UrlScheme is the scheme a browser reads: TAB
\* is removed, leading spaces are skipped, then letters, digits, "+", "-", "."
\* up to a ":".
UrlScheme(v) ==
  LET u == FilterSeq(v, {TAB})
      a == Skip(u, 1, {SP})
      r == Skip(u, a, SchemeClass \cup {"1"})
  IN IF a <= Len(u) /\ u[a] \in SchemeClass /\ r <= Len(u) /\ u[r] = ":"
     THEN SubSeq(u, a, r - 1) ELSE <<>>

C5_OnlyHttpHttpsMailto ==
  Returned => \A e \in Range(Elements(OutputTree)) :
                HasAttr(e.attrs, <<"href">>) =>
                  UrlScheme(AttrValue(e.attrs, <<"href">>))
                    \in { <<>>, <<"http">>, <<"https">>, <<"mailto">> }

\* C6 speaks of an input that is one a element with an href
LinkInput ==
  /\ Len(InputTree) = 1
  /\ InputTree[1].k = "e"
  /\ InputTree[1].tag = <<"a">>
  /\ HasAttr(InputTree[1].attrs, <<"href">>)

InputHref == AttrValue(InputTree[1].attrs, <<"href">>)

HrefKept ==
  /\ OutputTree # <<>>
  /\ OutputTree[1].k = "e"
  /\ HasAttr(OutputTree[1].attrs, <<"href">>)

\* is the href value u, written without obfuscation, kept on an a element
PlainHrefKept(u) == SanitizeAttributes(<<"a">>, <<[n |-> <<"href">>, v |-> u]>>) # <<>>

HasForbiddenTag == \E e \in Range(Elements(InputTree)) : e.tag \in FORBID_TAGS

IsNeutralTag(tag) == tag \notin ALLOWED_TAGS /\ tag \notin FORBID_TAGS

IsSplicedTag(tag) == IsNeutralTag(tag) /\ tag \notin FORBID_CONTENTS

RECURSIVE Splice(_)
Splice(ns) ==
  IF ns = <<>> THEN <<>>
  ELSE (IF ns[1].k = "t" THEN <<ns[1]>>
        ELSE IF IsSplicedTag(ns[1].tag) THEN Splice(ns[1].kids)
        ELSE <<ElemNode(ns[1].tag, ns[1].attrs, Splice(ns[1].kids))>>)
       \o Splice(Tail(ns))

HasSplicedTag == \E e \in Range(Elements(InputTree)) : IsSplicedTag(e.tag)

SplicedResult ==
  CHOOSE r \in { Serialize(SanitizeNodes(t)) : t \in { Splice(InputTree) } } : TRUE

C9_AllowlistClosure ==
  Returned => \A e \in Range(Elements(OutputTree)) :
                /\ e.tag \in ALLOWED_TAGS
                /\ \A k \in 1..Len(e.attrs) :
                     e.attrs[k].n \in Names({ "href", "rel", "target" })

\* C10: every a element of the returned markup whose href begins with
\* http:// or https:// has a rel with noopener and noreferrer, and a target
IsExternalHref(v) ==
  \/ StartsWithAt(v, 1, <<"http", ":", "/", "/">>)
  \/ StartsWithAt(v, 1, <<"https", ":", "/", "/">>)

C10_LinksHardened ==
  Returned => \A e \in Range(Elements(OutputTree)) :
                (/\ e.tag = <<"a">>
                 /\ HasAttr(e.attrs, <<"href">>)
                 /\ IsExternalHref(AttrValue(e.attrs, <<"href">>)))
                => /\ HasAttr(e.attrs, <<"rel">>)
                   /\ {"noopener", "noreferrer"} \subseteq Range(AttrValue(e.attrs, <<"rel">>))
                   /\ HasAttr(e.attrs, <<"target">>)

----------------------------------------------------------------------------
(* Content preservation *)

\* are the tokens from i on start and end tags of allowed elements without
\* attributes, and text, every element closed in order (stack: the open tags)
RECURSIVE WellNestedFrom(_, _, _)
WellNestedFrom(toks, i, stack) ==
  IF i > Len(toks) THEN stack = <<>>
  ELSE LET t == toks[i] IN
       IF t.k = "text" THEN WellNestedFrom(toks, i + 1, stack)
       ELSE IF t.k = "start"
       THEN /\ t.tag \in ALLOWED_TAGS
            /\ t.attrs = <<>>
            /\ WellNestedFrom(toks, i + 1,
                  IF t.tag \in VoidTags THEN stack ELSE Append(stack, t.tag))
       ELSE /\ stack # <<>>
            /\ stack[Len(stack)] = t.tag
            /\ WellNestedFrom(toks, i + 1, SubSeq(stack, 1, Len(stack) - 1))

AllowedWellNested(x) == WellNestedFrom(Tokenize(x), 1, <<>>)

HasMarkup(x) == \E k \in 1..Len(x) : x[k] = "<"

\* the string as the HTML parser and serializer give it back
Reserialized(x) ==
  IF ~HasMarkup(x) THEN x
  ELSE CHOOSE r \in { Serialize(t) : t \in { ParseTree(x) } } : TRUE

\* C11 as stated: well-nested markup of allowed tags without attributes and
\* plain text comes back as it went in
C11_AllowedMarkupUnchanged ==
  (Returned /\ kind = "string" /\ AllowedWellNested(html)) => output = html

\* C11 amended: well-nested markup of allowed tags without attributes and
\* plain text comes back as the HTML parser and serializer rewrite it: every
\* element the parser builds and all text are kept in order, and the string
\* is unchanged when it is already in that form
C11_AllowedMarkupReserialized ==
  (Returned /\ kind = "string" /\ AllowedWellNested(html)) =>
     /\ output = Reserialized(html)
     /\ (Reserialized(html) = html => output = html)

C11_Witness ==
  /\ Returned
  /\ html = El("p", <<>>, <<"Hi">> \o El("b", <<>>, <<"bold">>) \o <<"Hello">>
                            \o El("i", <<>>, <<"x">>))
  /\ output = html

----------------------------------------------------------------------------
(* Arguments of any kind, malformed markup, calls from several places *)

\* C12: for the empty string and for an argument that is no string the call
\* returns the empty string, raises nothing and runs neither DOMPurify nor
\* the link replacement
C12_NonStringsGiveEmpty ==
  (pc \in { "returned", "raised" } /\ (kind # "string" \/ html = <<>>)) =>
     /\ pc = "returned"
     /\ output = <<>>
     /\ ~ran

C12_Witness ==
  /\ Returned
  /\ kind = "number"
  /\ html = <<"1">>
  /\ output = <<>>
  /\ ~ran

IsStringValue(v) == DOMAIN v = 1..Len(v)

----------------------------------------------------------------------------
(* The StockNotes component *)

ScriptNote == El("script", <<>>, <<"alert(1)">>) \o <<"Hello">>
ButtonNote == El("p", <<>>, El("button", <<>>, El("p", <<>>, <<"Click">>)))

\* C15: whatever a step writes to the store is sanitizeNote of the string the
\* step worked on (the stored value at the mount, the text in the effect),
\* and the store changes in no other way
C15_OnlySanitizedWritten ==
  /\ [](last.wrote => /\ last.value = sanitizeNote(last.t)
                       /\ localStorage[last.key] = last.value)
  /\ [][\A k \in Keys :
          localStorage'[k] # localStorage[k] => (last'.wrote /\ last'.key = k)]_vars

C15_Witness ==
  /\ last.op = "effect"
  /\ last.wrote
  /\ last.t = ScriptNote
  /\ localStorage[storageKey(symbol)] = <<"Hello">>

\* C16: while the component is mounted, the markup handed to
\* dangerouslySetInnerHTML is sanitizeNote of the current text state
C16_RendersSanitizedText == phase = "mounted" => safeHtml = sanitizeNote(text)

C16_Witness ==
  /\ phase = "mounted"
  /\ last.op = "change"
  /\ text = ScriptNote
  /\ safeHtml = <<"Hello">>

\* was the entry under the key non-empty and not in sanitized form at the mount
MountedOnPoisonedEntry ==
  /\ last.op = "mount"
  /\ last.t # <<>>
  /\ sanitizeNote(last.t) # last.t

C18_StorageFailureTolerated ==
  /\ phase # "crashed"
  /\ (phase = "mounted" /\ storage # "ok") =>
        /\ IsStringValue(text)
        /\ safeHtml = sanitizeNote(text)

C18_Witness ==
  /\ phase = "mounted"
  /\ storage = "quota"
  /\ cause = "change"
  /\ last.op = "effect"
  /\ last.threw
  /\ text = ScriptNote
  /\ safeHtml = <<"Hello">>

\* C19: after a run of the effect on a text that sanitizing changes, the text
\* state is the sanitized text, whether setItem threw or not
C19_TextSanitizedAfterEffect ==
  (last.op = "effect" /\ sanitizeNote(last.t) # last.t) => text = sanitizeNote(last.t)

\* C20: after a change of the textarea, with a working store, the effect runs
\* at most twice, and when no run is due any more the text is its own
\* sanitized form and the store holds it under the current key
C20_ConvergesInTwoRuns ==
  (cause = "change" /\ storage = "ok") =>
     /\ runs <= 2
     /\ ~effectPending => /\ text = sanitizeNote(text)
                          /\ localStorage[storageKey(symbol)] = text

\* the effect that runs first after the symbol prop has changed
FirstEffectAfterSymbolChange ==
  cause = "symbol" /\ runs = 0 /\ last'.op = "effect"

\* C21: the notes of one symbol never reach another symbol's entry: when the
\* symbol prop of a mounted component changes, the effect that follows leaves
\* under the new symbol's key the note that lay there (as it was, or
\* sanitized), and the text rendered is that note's text
C21_NotesIsolatedPerSymbol ==
  [][FirstEffectAfterSymbolChange =>
       LET key == storageKey(symbol)
           note == localStorage[key]
       IN /\ localStorage'[key] \in { note, sanitizeNote(note) }
          /\ safeHtml' = sanitizeNote(note)]_vars

----------------------------------------------------------------------------
(* What the claims speak of: the searches of a slot *)

\* the calls of handleSearch of slot s that have not reached their end
RunningSearches(s) ==
  { id \in 1..Len(search) : search[id].slot = s /\ search[id].running }

\* is a request of a search of slot s still unanswered
FetchPending(s) ==
  \E id \in 1..Len(search) :
     /\ search[id].slot = s
     /\ (search[id].quote = Pending \/ search[id].historical = Pending)

\* has the Promise.all of the search settled: one fetch failed, or both succeeded
AllSettled(r) ==
  \/ r.quote = Rejected
  \/ r.historical = Rejected
  \/ (r.quote.st = "fulfilled" /\ r.historical.st = "fulfilled")

\* a step leaves the flag and the data of every slot alone that had no search
\* started and no fetch settled in it
OtherSlotsUntouched ==
  \A s \in AllSlots :
     (\A id \in 1..Len(search') :
         search'[id].slot = s => (id <= Len(search) /\ search'[id] = search[id]))
     => /\ isLoading'[s] = isLoading[s]
        /\ stockData'[s] = stockData[s]
        /\ historicalData'[s] = historicalData[s]

\* C22 as stated: the flag of a slot is true from the start of a search until
\* both its fetches have settled, every search sets it back to false in the
\* end, and a search in one slot leaves the other slot's flag and data alone
C22_LoadingUntilBothSettled ==
  /\ [](\A s \in AllSlots :
          /\ RunningSearches(s) # {} => isLoading[s]
          /\ FetchPending(s) => isLoading[s])
  /\ \A s \in AllSlots : isLoading[s] ~> ~isLoading[s]
  /\ [][OtherSlotsUntouched]_vars

\* C22, amended: the flag of a slot is true exactly while a call of
\* handleSearch of the slot runs, which is from its start until one of its
\* fetches has failed or both have succeeded; every search sets the flag back
\* to false in the end, whether the fetches succeed or one fails; and a
\* search in one slot leaves the other slot's flag and data alone
C22_LoadingWhileSearchRuns ==
  /\ [](\A s \in AllSlots : isLoading[s] <=> RunningSearches(s) # {})
  /\ [](\A id \in 1..Len(search) : search[id].running <=> ~AllSettled(search[id]))
  /\ \A s \in AllSlots : isLoading[s] ~> ~isLoading[s]
  /\ [][OtherSlotsUntouched]_vars

\* a search has ended on a failed quote while its history is still on the
\* way, and another has ended with both fetches answered
C22_Witness ==
  /\ \E id \in 1..Len(search) :
        /\ ~search[id].running
        /\ search[id].quote = Rejected
        /\ search[id].historical = Pending
        /\ ~isLoading[search[id].slot]
  /\ \E id \in 1..Len(search) :
        /\ ~search[id].running
        /\ search[id].quote.st = "fulfilled"
        /\ search[id].historical.st = "fulfilled"
        /\ ~isLoading[search[id].slot]

\* a search of slot s has ended with both fetches answered
EndedWell(r) ==
  ~r.running /\ r.quote.st = "fulfilled" /\ r.historical.st = "fulfilled"

\* a search has ended on a failed fetch
EndedBadly(r) ==
  ~r.running /\ (r.quote = Rejected \/ r.historical = Rejected)

\* C23: when a search ends, either both fetches succeeded and the slot's
\* stockData and historicalData are the quote and the history of that search,
\* or one failed and stockData is null and historicalData is empty, whatever
\* was shown before; and whenever no search of a slot runs, stockData = null
\* implies that historicalData is empty
C23_AllOrNothing ==
  /\ [](\A s \in AllSlots :
          (RunningSearches(s) = {} /\ stockData[s] = Null) => historicalData[s] = <<>>)
  /\ [][\A id \in 1..Len(search) :
          (search[id].running /\ ~search'[id].running) =>
             LET r == search'[id]
                 s == r.slot
             IN \/ /\ EndedWell(r)
                   /\ stockData'[s] = r.quote.v
                   /\ historicalData'[s] = r.historical.v
                \/ /\ EndedBadly(r)
                   /\ stockData'[s] = Null
                   /\ historicalData'[s] = <<>>]_vars

\* in one slot a search has shown its data, and a later search has failed and
\* cleared them
C23_Witness ==
  \E id1, id2 \in 1..Len(search) :
     /\ id1 < id2
     /\ search[id1].slot = search[id2].slot
     /\ EndedWell(search[id1])
     /\ search[id1].historical.v # <<>>
     /\ EndedBadly(search[id2])
     /\ stockData[search[id2].slot] = Null
     /\ historicalData[search[id2].slot] = <<>>

\* the text is c in upper case
IsUpperOf(C, c) ==
  \/ C = c /\ ~\E j \in 1..Len(LowerCase) : LowerCase[j] = c
  \/ \E j \in 1..Len(LowerCase) : LowerCase[j] = c /\ UpperCase[j] = C

\* sym is the typed text without the white space around it, in upper case
IsTrimmedUpperCaseOf(sym, typed) ==
  /\ sym # <<>>
  /\ ~IsWhiteSpace(sym[1])
  /\ ~IsWhiteSpace(sym[Len(sym)])
  /\ \E i \in 1..Len(typed) :
        /\ i + Len(sym) - 1 <= Len(typed)
        /\ \A k \in 1..Len(typed) :
              IF k < i \/ k > i + Len(sym) - 1
              THEN IsWhiteSpace(typed[k])
              ELSE IsUpperOf(sym[k - i + 1], typed[k])

OnlyWhiteSpace(str) == \A k \in 1..Len(str) : IsWhiteSpace(str[k])

\* the searches StockSearch started
StartedByStockSearch(id) == search[id].by = "StockSearch"

\* the searches of slot s with a request that is not answered yet
InFlight(s) ==
  { id \in 1..Len(search) :
       /\ search[id].slot = s
       /\ (search[id].quote = Pending \/ search[id].historical = Pending) }

\* StockSearch calls onSearch with the typed text trimmed and in upper case,
\* never for an empty text or one of white space only, and its field and
\* button are disabled while isLoading is true
Gated ==
  /\ [](\A id \in 1..Len(search) :
          StartedByStockSearch(id) =>
             IsTrimmedUpperCaseOf(search[id].symbol, search[id].typed))
  /\ [](\A s \in AllSlots : isLoading[s] => (InputDisabled(s) /\ SubmitDisabled(s)))
  /\ [][\A s \in AllSlots :
          OnlyWhiteSpace(searchInput[s]) =>
             ~\E id \in 1..Len(search') :
                 /\ id > Len(search)
                 /\ search'[id].slot = s
                 /\ search'[id].by = "StockSearch"]_vars
  /\ [][\A s \in AllSlots :
          isLoading[s] => /\ searchInput'[s] = searchInput[s]
                          /\ RunningSearches(s) \subseteq { id \in 1..Len(search') :
                                                              search'[id].slot = s }
                          /\ \A id \in 1..Len(search') :
                               search'[id].slot = s => id <= Len(search)]_vars

\* C24 as stated: StockSearch calls onSearch only with a non-empty, trimmed,
\* upper-cased symbol, never for an empty or white-space input, the field
\* and the button are disabled while isLoading is true, and so at most one
\* search of a slot is in flight at any time
C24_OneSearchInFlight ==
  /\ Gated
  /\ [](\A s \in AllSlots : Cardinality(InFlight(s)) <= 1)

\* C24, amended: StockSearch calls onSearch only with a non-empty, trimmed,
\* upper-cased symbol, never for an empty or white-space input, the field
\* and the button are disabled while isLoading is true, and so at most one
\* call of handleSearch of a slot runs at any time; requests of earlier
\* searches of the slot that ended on a failed fetch may still be unanswered
C24_OneSearchRunning ==
  /\ Gated
  /\ [](\A s \in AllSlots : Cardinality(RunningSearches(s)) <= 1)

\* a search that StockSearch started from a text with white space around it
\* and small letters runs, and the field holds white space only in another
\* slot where nothing was ever searched
C24_Witness ==
  /\ \E id \in 1..Len(search) :
        /\ StartedByStockSearch(id)
        /\ search[id].running
        /\ search[id].typed # search[id].symbol
        /\ isLoading[search[id].slot]
  /\ \E s \in AllSlots :
        /\ searchInput[s] # <<>>
        /\ OnlyWhiteSpace(searchInput[s])
        /\ \A id \in 1..Len(search) : search[id].slot # s

====
